---- MODULE Spec2Model ----
(***************************************************************************)
(* IEP Minute Pro: the spreadsheet-backed record store (SheetsDB) and the  *)
(* aggregation functions of app.py, as a state machine.                    *)
(*                                                                         *)
(* A worksheet is the sequence of its data rows (row i of the sequence is  *)
(* sheet row i + 1, the header being sheet row 1).  A cell that the code   *)
(* coerces on read (minutes, date, goal) is kept as the raw cell: a number *)
(* or a text that is no number / no date.                                  *)
(***************************************************************************)
EXTENDS Integers, Sequences, FiniteSets, TLC

VARIABLES
    staff_ws,        \* worksheet "staff":    rows [id, name]
    students_ws,     \* worksheet "students": rows [id, name, grade, goals]
    logs_ws,         \* worksheet "logs":     rows [id, student_id, subject, staff, minutes, date]
    ren,             \* update_staff_names in progress: its locals and position
    student_ids,     \* history: ids _next_id handed to add_student, in order
    log_ids,         \* history: ids _next_id handed to add_log, in order
    renames,         \* history: update_staff_names calls so far
    view,            \* what the last call of an aggregation function returned
    session_state,   \* st.session_state: the cached students_df, logs_df, staff_df
    script           \* the script run of a form submission: its position and locals

vars == <<staff_ws, students_ws, logs_ws, ren, student_ids, log_ids, renames, view,
          session_state, script>>

(***************************************************************************)
(* Bounds of the model.                                                    *)
(***************************************************************************)
NumStaff    == 2    \* staff rows seeded (the first NumStaff of DEFAULT_STAFF)
MaxStudents == 2    \* student rows present at a time
MaxAdds     == 3    \* add_student calls in a run
MaxLogs     == 2    \* log rows in the sheet
MaxRenames  == 1    \* update_staff_names calls in a run

(***************************************************************************)
(* Constants of app.py.                                                    *)
(***************************************************************************)
SUBJECTS == <<"Math", "English", "Task Completion">>

GRADES == <<"6th", "7th", "8th">>

DEFAULT_STAFF ==
    << [id |-> 1, name |-> "Ms. Rivera"],
       [id |-> 2, name |-> "Mr. Thompson"],
       [id |-> 3, name |-> "Ms. Chen"],
       [id |-> 4, name |-> "Mr. Davis"],
       [id |-> 5, name |-> "Ms. Patel"] >>

GoalColumns == {"goal_math", "goal_english", "goal_task_completion"}

FallbackGoal == 60

SeqToSet(s) == {s[i] : i \in 1..Len(s)}

SubjectSet == SeqToSet(SUBJECTS)

(***************************************************************************)
(* Raw cells.                                                              *)
(***************************************************************************)
NumCell(n) == [num |-> TRUE, val |-> n]

TextCell == [num |-> FALSE, val |-> 0]

\* str(log_date): an ISO date text, which pd.to_datetime reads back
DateCell(d) == [ok |-> TRUE, day |-> d]

BadDateCell == [ok |-> FALSE, day |-> 0]

NaT == [ok |-> FALSE, day |-> 0]

(***************************************************************************)
(* SheetsDB: helpers and readers.                                          *)
(***************************************************************************)
RECURSIVE MaxId(_)
\* max(int(r["id"]) for r in recs), default 0
MaxId(recs) ==
    IF recs = <<>> THEN 0
    ELSE LET m == MaxId(Tail(recs))
         IN  IF Head(recs).id > m THEN Head(recs).id ELSE m

\* a plausible slip: the row count instead of the largest id
next_id_by_count(recs) == Len(recs) + 1

next_id(recs) == MaxId(recs) + 1

\* sheet row (header = row 1) of the first record whose id is value; 0 for None
find_row(recs, value) ==
    IF \E i \in 1..Len(recs) : recs[i].id = value
    THEN 1 + CHOOSE i \in 1..Len(recs) :
                 /\ recs[i].id = value
                 /\ \A j \in 1..(i - 1) : recs[j].id # value
    ELSE 0

\* ws.delete_rows(row)
delete_rows(recs, row) ==
    [i \in 1..(Len(recs) - 1) |-> IF i < row - 1 THEN recs[i] ELSE recs[i + 1]]

get_staff(ws) == IF ws = <<>> THEN DEFAULT_STAFF ELSE ws

\* pd.to_numeric(errors="coerce").fillna(60).astype(int) on each goal column
get_students(ws) ==
    [i \in 1..Len(ws) |->
        [id    |-> ws[i].id,
         name  |-> ws[i].name,
         grade |-> ws[i].grade,
         goals |-> [c \in DOMAIN ws[i].goals |->
                       NumCell(IF ws[i].goals[c].num THEN ws[i].goals[c].val
                                                     ELSE 60)]]]

\* pd.to_numeric(errors="coerce").fillna(0).astype(int)
coerce_minutes(cell) == IF cell.num THEN cell.val ELSE 0

\* pd.to_datetime(errors="coerce").dt.date
coerce_date(cell) == IF cell.ok THEN [ok |-> TRUE, day |-> cell.day] ELSE NaT

get_logs(ws) ==
    [i \in 1..Len(ws) |->
        [id         |-> ws[i].id,
         student_id |-> ws[i].student_id,
         subject    |-> ws[i].subject,
         staff      |-> ws[i].staff,
         minutes    |-> coerce_minutes(ws[i].minutes),
         date       |-> coerce_date(ws[i].date)]]

(***************************************************************************)
(* Aggregation (app.py, "DATE HELPERS").                                   *)
(***************************************************************************)
\* a plausible slip: the mask written as a negation, which NaT passes
DateInRange_negated(d, start, end) == ~ (d.ok /\ (d.day < start \/ d.day > end))

\* (d >= start) & (d <= end): a comparison with NaT is False
DateInRange(d, start, end) == d.ok /\ d.day >= start /\ d.day <= end

\* a plausible slip: the end of the window left out
logs_in_range_open_end(logs_df, start, end) ==
    SelectSeq(logs_df, LAMBDA r : r.date.ok /\ r.date.day >= start /\ r.date.day < end)

logs_in_range(logs_df, start, end) ==
    IF logs_df = <<>> THEN logs_df
    ELSE SelectSeq(logs_df, LAMBDA r : DateInRange(r.date, start, end))

RECURSIVE SumMinutes(_)
\* sub["minutes"].sum()
SumMinutes(rows) ==
    IF rows = <<>> THEN 0 ELSE Head(rows).minutes + SumMinutes(Tail(rows))

\* a plausible slip: the subject test left out of the mask
student_minutes_any_subject(logs_df, student_id, subject, start, end) ==
    SumMinutes(SelectSeq(logs_in_range(logs_df, start, end),
                         LAMBDA r : r.student_id = student_id))

student_minutes(logs_df, student_id, subject, start, end) ==
    LET sub == logs_in_range(logs_df, start, end)
    IN  IF sub = <<>> THEN 0
        ELSE SumMinutes(SelectSeq(sub, LAMBDA r : /\ r.student_id = student_id
                                                  /\ r.subject = subject))

RECURSIVE AddRows(_, _)
\* for _, row in sub.iterrows(): if row["staff"] in result: result[...] += minutes
AddRows(result, rows) ==
    IF rows = <<>> THEN result
    ELSE LET row == Head(rows)
         IN  AddRows(IF row.staff \in DOMAIN result
                     THEN [result EXCEPT ![row.staff] = @ + row.minutes]
                     ELSE result,
                     Tail(rows))

StaffNames(staff_df) == {staff_df[i].name : i \in 1..Len(staff_df)}

\* a plausible slip: a bucket is opened for every staff name met in the rows
staff_breakdown_open_keys(logs_df, student_id, subject, start, end, staff_df) ==
    LET sub  == SelectSeq(logs_in_range(logs_df, start, end),
                          LAMBDA r : /\ r.student_id = student_id
                                     /\ r.subject = subject)
        keys == StaffNames(staff_df) \cup {sub[i].staff : i \in 1..Len(sub)}
    IN  AddRows([n \in keys |-> 0], sub)

staff_breakdown(logs_df, student_id, subject, start, end, staff_df) ==
    LET result == [n \in StaffNames(staff_df) |-> 0]
        sub    == logs_in_range(logs_df, start, end)
    IN  IF sub = <<>> THEN result
        ELSE AddRows(result,
                     SelectSeq(sub, LAMBDA r : /\ r.student_id = student_id
                                               /\ r.subject = subject))

\* GOAL_COL.get(subject, "goal_math")
GOAL_COL(subject) ==
    CASE subject = "Math"            -> "goal_math"
      [] subject = "English"         -> "goal_english"
      [] subject = "Task Completion" -> "goal_task_completion"
      [] OTHER                       -> "goal_math"

\* a plausible slip: a text cell counted as no goal at all
safe_goal_zero_fallback(student, subject) ==
    LET col == GOAL_COL(subject)
    IN  IF col \in DOMAIN student
        THEN (IF student[col].num THEN student[col].val ELSE 0)
        ELSE FallbackGoal

\* student: the goal cells of one student row, by column name
safe_goal(student, subject) ==
    LET col == GOAL_COL(subject)
    IN  IF col \in DOMAIN student
        THEN (IF student[col].num THEN student[col].val ELSE FallbackGoal)
        ELSE FallbackGoal

(***************************************************************************)
(* Inputs of the forms, drawn from small sets.                             *)
(***************************************************************************)
\* the text inputs of the team-setup form: current names and a new one
NamePool == {"Ms. Rivera", "Mr. Thompson", "Ms. Lopez"}

\* the add-student form: name, grade and the three goals (number inputs)
NewStudents ==
    { [name |-> "Ana", grade |-> "6th",
       goals |-> [s \in SubjectSet |-> IF s = "Math" THEN 60
                                        ELSE IF s = "English" THEN 90 ELSE 45]],
      [name |-> "Ben", grade |-> "7th",
       goals |-> [s \in {"Math"} |-> 30]] }

\* the log-session form
LogSubjects == {"Math", "English"}

LogMinutes == {30}

LogDates == {1}

\* goals.get(subject, default)
GoalsGet(goals, subject, default) ==
    IF subject \in DOMAIN goals THEN goals[subject] ELSE default

(***************************************************************************)
(* The store after SheetsDB() on a new spreadsheet: _ensure_sheets seeds   *)
(* the staff sheet; the other two hold their header only.                  *)
(***************************************************************************)
IdleRen ==
    [phase |-> "idle", order |-> <<>>, new_names |-> <<>>, old_names |-> <<>>,
     k |-> 0, log_recs |-> <<>>, i |-> 0,
     staff_before |-> <<>>, logs_before |-> <<>>]

NoView == [op |-> "none"]

\* a key of st.session_state that is not set
NotCached == [cached |-> FALSE, df |-> <<>>]

\* the session of a browser that has just connected
NewSession ==
    [students_df |-> NotCached, logs_df |-> NotCached, staff_df |-> NotCached]

\* no script run is between two of its store calls
IdleScript == [pc |-> "idle", selected_ids |-> <<>>, form |-> <<>>]

\* a step of the store alone: the session and the script run are not involved
StoreOnly == UNCHANGED <<session_state, script>>

Init ==
    /\ staff_ws = SubSeq(DEFAULT_STAFF, 1, NumStaff)
    /\ students_ws = <<>>
    /\ logs_ws = <<>>
    /\ ren = IdleRen
    /\ student_ids = <<>>
    /\ log_ids = <<>>
    /\ renames = 0
    /\ view = NoView
    /\ session_state = NewSession
    /\ script = IdleScript

\* no update_staff_names call is between two of its store calls
Quiet == ren.phase \notin {"staff", "logs"}

(***************************************************************************)
(* Students.                                                               *)
(***************************************************************************)
add_student(name, grade, goals) ==
    /\ Quiet
    /\ Len(students_ws) < MaxStudents
    /\ Len(student_ids) < MaxAdds
    /\ LET new_id == next_id(students_ws)
       IN  /\ students_ws' = Append(students_ws,
                 [id    |-> new_id,
                  name  |-> name,
                  grade |-> grade,
                  goals |-> [c \in GoalColumns |->
                      CASE c = "goal_math"    -> NumCell(GoalsGet(goals, "Math", 60))
                        [] c = "goal_english" -> NumCell(GoalsGet(goals, "English", 90))
                        [] OTHER -> NumCell(GoalsGet(goals, "Task Completion", 45))]])
           /\ student_ids' = Append(student_ids, new_id)
    /\ ren' = IdleRen
    /\ UNCHANGED <<staff_ws, logs_ws, log_ids, renames, view>>

\* a plausible slip: the delete cascades to the log rows of the student
delete_student_cascade(sid) ==
    /\ Quiet
    /\ LET row == find_row(students_ws, sid)
       IN  students_ws' = IF row # 0 THEN delete_rows(students_ws, row)
                                     ELSE students_ws
    /\ logs_ws' = SelectSeq(logs_ws, LAMBDA r : r.student_id # sid)
    /\ ren' = IdleRen
    /\ UNCHANGED <<staff_ws, student_ids, log_ids, renames, view>>

delete_student(sid) ==
    /\ Quiet
    /\ LET row == find_row(students_ws, sid)
       IN  students_ws' = IF row # 0 THEN delete_rows(students_ws, row)
                                     ELSE students_ws
    /\ ren' = IdleRen
    /\ UNCHANGED <<staff_ws, logs_ws, student_ids, log_ids, renames, view>>

\* cm.get(subj): the goal column of a subject, "" for None
GoalColumnOf(subj) ==
    CASE subj = "Math"            -> "goal_math"
      [] subj = "English"         -> "goal_english"
      [] subj = "Task Completion" -> "goal_task_completion"
      [] OTHER                    -> ""

\* a plausible slip: hdrs.index(cn) without the + 1, the column to the left
\* (active_subject, which the rows here do not carry, for goal_math)
GoalColumnLeftOf(subj) ==
    CASE subj = "English"         -> "goal_math"
      [] subj = "Task Completion" -> "goal_english"
      [] OTHER                    -> ""

RECURSIVE GoalWrites(_, _)
\* for subj, val in goals.items(): one update_cell per item, if cols gives its
\* subject a column
GoalWrites(goals, cols) ==
    IF goals = <<>> THEN <<>>
    ELSE (IF Head(cols) # "" THEN << <<Head(cols), Head(goals)[2]>> >> ELSE <<>>)
             \o GoalWrites(Tail(goals), Tail(cols))

\* the update_cell calls of update_student on a row that was found, in order:
\* the name if new_name is not empty, then those of the goals
UpdateCells(new_name, goals, cols) ==
    (IF new_name # "" THEN << <<"name", new_name>> >> ELSE <<>>)
      \o GoalWrites(goals, cols)

RECURSIVE WriteCells(_, _)
\* the student record after the update_cell calls of cells
WriteCells(rec, cells) ==
    IF cells = <<>> THEN rec
    ELSE LET c == Head(cells)
         IN  WriteCells(IF c[1] = "name"
                        THEN [rec EXCEPT !.name = c[2]]
                        ELSE [rec EXCEPT !.goals[c[1]] = NumCell(c[2])],
                        Tail(cells))

update_student_left_column(sid, new_name, goals, done) ==
    /\ Quiet
    /\ LET row   == find_row(students_ws, sid)
           cells == UpdateCells(new_name, goals,
                        [k \in 1..Len(goals) |-> GoalColumnLeftOf(goals[k][1])])
       IN  /\ done <= Len(cells)
           /\ students_ws' =
                 IF row = 0 THEN students_ws
                 ELSE [students_ws EXCEPT
                          ![row - 1] = WriteCells(@, SubSeq(cells, 1, done))]
    /\ ren' = IdleRen
    /\ UNCHANGED <<staff_ws, logs_ws, student_ids, log_ids, renames, view>>

\* goals: the items of the dict, in order.  done: the update_cell calls that
\* return before one raises (all of them when none does)
update_student(sid, new_name, goals, done) ==
    /\ Quiet
    /\ LET row   == find_row(students_ws, sid)
           cells == UpdateCells(new_name, goals,
                        [k \in 1..Len(goals) |-> GoalColumnOf(goals[k][1])])
       IN  /\ done <= Len(cells)
           /\ students_ws' =
                 IF row = 0 THEN students_ws
                 ELSE [students_ws EXCEPT
                          ![row - 1] = WriteCells(@, SubSeq(cells, 1, done))]
    /\ ren' = IdleRen
    /\ UNCHANGED <<staff_ws, logs_ws, student_ids, log_ids, renames, view>>

(***************************************************************************)
(* Logs.                                                                   *)
(***************************************************************************)
add_log(student_id, subject, staff, minutes, log_date) ==
    /\ Quiet
    /\ Len(logs_ws) < MaxLogs
    /\ LET new_id == next_id(logs_ws)
       IN  /\ logs_ws' = Append(logs_ws,
                 [id         |-> new_id,
                  student_id |-> student_id,
                  subject    |-> subject,
                  staff      |-> staff,
                  minutes    |-> NumCell(minutes),
                  date       |-> DateCell(log_date)])
           /\ log_ids' = Append(log_ids, new_id)
    /\ ren' = IdleRen
    /\ UNCHANGED <<staff_ws, students_ws, student_ids, renames, view>>

(***************************************************************************)
(* update_staff_names(new_names), one step per write to the store.  The    *)
(* form builds new_names from the staff rows in order, one text input per  *)
(* row, so its items() follow the rows.                                    *)
(***************************************************************************)
\* least index >= from of a record of log_recs with staff == old; 0 if none
NextMatch(log_recs, old, from) ==
    IF \E i \in from..Len(log_recs) : log_recs[i].staff = old
    THEN CHOOSE i \in from..Len(log_recs) :
             /\ log_recs[i].staff = old
             /\ \A j \in from..(i - 1) : log_recs[j].staff # old
    ELSE 0

\* old_names.get(int(sid), "")
OldName(old_names, sid) == IF sid \in DOMAIN old_names THEN old_names[sid] ELSE ""

\* the for loop over new_names.items() moves on from item k
NextItem(r, k) ==
    IF k < Len(r.order)
    THEN [r EXCEPT !.phase = "staff", !.k = k + 1, !.log_recs = <<>>, !.i = 0]
    ELSE [r EXCEPT !.phase = "done", !.log_recs = <<>>, !.i = 0]

\* recs and old_names are read; the loop stands before its first item
RenameBegin(new_names) ==
    /\ Quiet
    /\ renames < MaxRenames
    /\ renames' = renames + 1
    /\ ren' = [phase     |-> IF Len(staff_ws) = 0 THEN "done" ELSE "staff",
               order     |-> [i \in 1..Len(staff_ws) |-> staff_ws[i].id],
               new_names |-> new_names,
               old_names |-> [id \in {staff_ws[i].id : i \in 1..Len(staff_ws)} |->
                                 staff_ws[find_row(staff_ws, id) - 1].name],
               k         |-> IF Len(staff_ws) = 0 THEN 0 ELSE 1,
               log_recs  |-> <<>>,
               i         |-> 0,
               staff_before |-> staff_ws,
               logs_before  |-> logs_ws]
    /\ UNCHANGED <<staff_ws, students_ws, logs_ws, student_ids, log_ids, view>>

\* item k: the staff cell is written; the log rows are read if the name changed
RenameStaffCell ==
    /\ ren.phase = "staff"
    /\ LET sid      == ren.order[ren.k]
           new_name == ren.new_names[sid]
           row      == find_row(staff_ws, sid)
           old      == OldName(ren.old_names, sid)
           first    == NextMatch(logs_ws, old, 1)
       IN  /\ staff_ws' = IF row # 0
                          THEN [staff_ws EXCEPT ![row - 1].name = new_name]
                          ELSE staff_ws
           /\ ren' = IF old # "" /\ old # new_name /\ first # 0
                     THEN [ren EXCEPT !.phase = "logs", !.log_recs = logs_ws,
                                      !.i = first]
                     ELSE NextItem(ren, ren.k)
    /\ UNCHANGED <<students_ws, logs_ws, student_ids, log_ids, renames, view>>

\* a plausible slip: sc without the + 1, the column to the left of staff
RenameLogCell_left_column ==
    /\ ren.phase = "logs"
    /\ LET sid      == ren.order[ren.k]
           new_name == ren.new_names[sid]
           old      == OldName(ren.old_names, sid)
           next     == NextMatch(ren.log_recs, old, ren.i + 1)
       IN  /\ logs_ws' = [logs_ws EXCEPT ![ren.i].subject = new_name]
           /\ ren' = IF next # 0 THEN [ren EXCEPT !.i = next]
                                 ELSE NextItem(ren, ren.k)
    /\ UNCHANGED <<staff_ws, students_ws, student_ids, log_ids, renames, view>>

\* logs_ws.update_cell(i + 2, sc, new_name) for the next record with staff == old
RenameLogCell ==
    /\ ren.phase = "logs"
    /\ LET sid      == ren.order[ren.k]
           new_name == ren.new_names[sid]
           old      == OldName(ren.old_names, sid)
           next     == NextMatch(ren.log_recs, old, ren.i + 1)
       IN  /\ logs_ws' = [logs_ws EXCEPT ![ren.i].staff = new_name]
           /\ ren' = IF next # 0 THEN [ren EXCEPT !.i = next]
                                 ELSE NextItem(ren, ren.k)
    /\ UNCHANGED <<staff_ws, students_ws, student_ids, log_ids, renames, view>>

\* a store call raises (connectivity, rate limit): the call ends where it stands
RenameFail ==
    /\ ren.phase \in {"staff", "logs"}
    /\ ren' = [ren EXCEPT !.phase = "failed"]
    /\ UNCHANGED <<staff_ws, students_ws, logs_ws, student_ids, log_ids, renames, view>>

Next ==
    \/ \E st \in NewStudents : add_student(st.name, st.grade, st.goals) /\ StoreOnly
    \/ \E sid \in SeqToSet(student_ids) : delete_student(sid) /\ StoreOnly
    \/ \E sid \in {students_ws[i].id : i \in 1..Len(students_ws)},
          subject \in LogSubjects,
          staff \in StaffNames(get_staff(staff_ws)),
          minutes \in LogMinutes,
          log_date \in LogDates :
              add_log(sid, subject, staff, minutes, log_date) /\ StoreOnly
    \/ \E new_names \in [{staff_ws[i].id : i \in 1..Len(staff_ws)} -> NamePool] :
          RenameBegin(new_names) /\ StoreOnly
    \/ RenameStaffCell /\ StoreOnly
    \/ RenameLogCell /\ StoreOnly
    \/ RenameFail /\ StoreOnly

Spec == Init /\ [][Next]_vars

\* the appends and the delete alone: no update_staff_names call
StoreNext ==
    \/ \E st \in NewStudents : add_student(st.name, st.grade, st.goals) /\ StoreOnly
    \/ \E sid \in SeqToSet(student_ids) : delete_student(sid) /\ StoreOnly
    \/ \E sid \in {students_ws[i].id : i \in 1..Len(students_ws)},
          subject \in LogSubjects,
          staff \in StaffNames(get_staff(staff_ws)),
          minutes \in LogMinutes,
          log_date \in LogDates :
              add_log(sid, subject, staff, minutes, log_date) /\ StoreOnly

StoreSpec == Init /\ [][StoreNext]_vars

(***************************************************************************)
(* The session: the loaders with their cache, refresh, and the script runs *)
(* of the forms.  refresh() pops the three keys and reruns the script,     *)
(* whose first lines load the three snapshots again.                       *)
(***************************************************************************)
\* load_students / load_logs / load_staff: the cached snapshot if there is one
load(key, fresh) ==
    IF session_state[key].cached THEN session_state[key].df ELSE fresh

load_students == load("students_df", get_students(students_ws))

load_logs == load("logs_df", get_logs(logs_ws))

load_staff == load("staff_df", get_staff(staff_ws))

\* the session after main's loads: each key is set, to what its loader returned
Loaded ==
    [students_df |-> [cached |-> TRUE, df |-> load_students],
     logs_df     |-> [cached |-> TRUE, df |-> load_logs],
     staff_df    |-> [cached |-> TRUE, df |-> load_staff]]

\* refresh(): the keys are popped, the script reruns and loads from the store
\* as the mutation has left it
refresh ==
    session_state' =
        [students_df |-> [cached |-> TRUE, df |-> get_students(students_ws')],
         logs_df     |-> [cached |-> TRUE, df |-> get_logs(logs_ws')],
         staff_df    |-> [cached |-> TRUE, df |-> get_staff(staff_ws')]]

\* a script run in which no button fires (a tab or a pill is clicked)
Main ==
    /\ script.pc = "idle"
    /\ session_state' = Loaded
    /\ UNCHANGED <<staff_ws, students_ws, logs_ws, ren, student_ids, log_ids,
                   renames, view, script>>

\* render_add_student: "+ Add Student" with a name entered
AddStudentSubmit(name, grade, goals) ==
    /\ script.pc = "idle"
    /\ add_student(name, grade, goals)
    /\ refresh
    /\ UNCHANGED script

\* render_student_card: the remove button of the card of student sid
DeleteClick(sid) ==
    /\ script.pc = "idle"
    /\ delete_student(sid)
    /\ refresh
    /\ UNCHANGED script

NoSelection == "-- select --"

\* the ids of the checked students, in the order of the rows of gs
RECURSIVE Checked(_, _)
Checked(gs, checked) ==
    IF gs = <<>> THEN <<>>
    ELSE (IF Head(gs).id \in checked THEN <<Head(gs).id>> ELSE <<>>)
             \o Checked(Tail(gs), checked)

\* errs of render_log_session for a form and the number of ticked students
Errs(grade_sel, staff_sel, n_sel) ==
    (IF grade_sel = NoSelection THEN <<"Select a grade.">> ELSE <<>>)
      \o (IF staff_sel = NoSelection THEN <<"Select a staff member.">> ELSE <<>>)
      \o (IF n_sel = 0 THEN <<"Select at least one student.">> ELSE <<>>)

\* a plausible slip: the staff select box is not validated
Errs_staff_unchecked(grade_sel, staff_sel, n_sel) ==
    (IF grade_sel = NoSelection THEN <<"Select a grade.">> ELSE <<>>)
      \o (IF n_sel = 0 THEN <<"Select at least one student.">> ELSE <<>>)

\* render_log_session: the submit button is pressed with the form as given;
\* checked are the ids whose checkbox is ticked.  With an error nothing is
\* done; otherwise the loop over selected_ids stands before its first add_log.
\* view keeps the form as submitted, the errors shown, and the three sheets
\* as they were when the button was pressed
LogSessionSubmit(grade_sel, subj_sel, staff_sel, mins_val, log_date, checked) ==
    /\ script.pc = "idle"
    /\ session_state' = Loaded
    /\ LET students_df  == load_students
           gs           == SelectSeq(students_df, LAMBDA r : r.grade = grade_sel)
           selected_ids == IF grade_sel = NoSelection THEN <<>>
                           ELSE Checked(gs, checked)
           errs         == Errs(grade_sel, staff_sel, Len(selected_ids))
       IN  /\ script' = IF errs # <<>> THEN IdleScript
                        ELSE [pc           |-> "logging",
                              selected_ids |-> selected_ids,
                              form         |-> <<subj_sel, staff_sel, mins_val, log_date>>]
           /\ view' = [op           |-> "log_session",
                       grade_sel    |-> grade_sel,
                       staff_sel    |-> staff_sel,
                       selected_ids |-> selected_ids,
                       form         |-> <<subj_sel, staff_sel, mins_val, log_date>>,
                       errs         |-> errs,
                       before       |-> <<staff_ws, students_ws, logs_ws>>]
    /\ UNCHANGED <<staff_ws, students_ws, logs_ws, ren, student_ids, log_ids,
                   renames>>

\* db.add_log for the next selected student; after the last one, refresh()
LogSessionAdd ==
    /\ script.pc = "logging"
    /\ add_log(Head(script.selected_ids), script.form[1], script.form[2],
               script.form[3], script.form[4])
    /\ IF Len(script.selected_ids) > 1
       THEN /\ script' = [script EXCEPT !.selected_ids = Tail(@)]
            /\ UNCHANGED session_state
       ELSE /\ script' = IdleScript
            /\ refresh

\* the next db.add_log raises (connectivity, rate limit): the run ends with
\* the exception, before refresh()
LogSessionFail ==
    /\ script.pc = "logging"
    /\ script' = IdleScript
    /\ UNCHANGED <<staff_ws, students_ws, logs_ws, ren, student_ids, log_ids,
                   renames, view, session_state>>

\* the grade and staff select boxes, and the sets of ticked checkboxes
GradeChoices == {NoSelection, "6th", "7th"}

StaffChoices == {NoSelection, "Ms. Rivera"}

SessionNext ==
    \/ Main
    \/ \E st \in NewStudents : AddStudentSubmit(st.name, st.grade, st.goals)
    \/ \E sid \in {load_students[i].id : i \in 1..Len(load_students)} :
          DeleteClick(sid)
    \/ \E grade_sel \in GradeChoices, staff_sel \in StaffChoices,
          checked \in SUBSET {load_students[i].id : i \in 1..Len(load_students)} :
          LogSessionSubmit(grade_sel, "Math", staff_sel, 30, 1, checked)
    \/ LogSessionAdd
    \/ LogSessionFail

SessionSpec == Init /\ [][SessionNext]_vars

(***************************************************************************)
(* The aggregation functions on the snapshot of any sheet the store may    *)
(* hold: SheetsDB() opens a spreadsheet as it finds it, and a cell typed   *)
(* into the sheet by hand may hold any number or text.                     *)
(***************************************************************************)
RawMinutes == {NumCell(-5), NumCell(30), TextCell}

RawDates == {DateCell(d) : d \in 0..2} \cup {BadDateCell}

\* the minutes and date cells of a row: entered minutes on any date, or a
\* hand-edited minutes cell on day 1
RawCells ==
    ({NumCell(30)} \X RawDates) \cup (RawMinutes \X {DateCell(1)})

\* a roster name, and a name no staff row holds
RawStaff == {"Ms. Rivera", "Ms. Lopez"}

\* the student and subject of a row: each differs from <<1, "Math">> in one part
RawKeys == {<<1, "Math">>, <<2, "Math">>, <<1, "English">>}

RawLogRows == RawKeys \X RawStaff \X RawCells

\* the sheet whose rows hold the cells of body, with ids 1, 2, ... as add_log
\* assigns them
SheetOf(body) ==
    [i \in 1..Len(body) |->
        [id         |-> i,
         student_id |-> body[i][1][1],
         subject    |-> body[i][1][2],
         staff      |-> body[i][2],
         minutes    |-> body[i][3][1],
         date       |-> body[i][3][2]]]

\* the windows of the dashboard: one day, or two
Windows == {<<1, 1>>, <<1, 2>>}

\* the students whose cards are rendered
CardStudents == {1, 2}

AggInit ==
    /\ staff_ws = SubSeq(DEFAULT_STAFF, 1, NumStaff)
    /\ students_ws = <<>>
    /\ \E n \in 0..MaxLogs : \E body \in [1..n -> RawLogRows] :
          logs_ws = SheetOf(body)
    /\ ren = IdleRen
    /\ student_ids = <<>>
    /\ log_ids = <<>>
    /\ renames = 0
    /\ view = NoView
    /\ session_state = NewSession
    /\ script = IdleScript

\* the three functions, called as render_student_card calls them for a window
Render(start, end) ==
    /\ LET logs_df  == get_logs(logs_ws)
           staff_df == get_staff(staff_ws)
           cards    == CardStudents \X SubjectSet
       IN  view' =
             [op       |-> "render",
              start    |-> start,
              end      |-> end,
              in_range |-> logs_in_range(logs_df, start, end),
              total    |-> [c \in cards |->
                             student_minutes(logs_df, c[1], c[2], start, end)],
              by_staff |-> [c \in cards |->
                             staff_breakdown(logs_df, c[1], c[2], start, end, staff_df)]]
    /\ UNCHANGED <<staff_ws, students_ws, logs_ws, ren, student_ids, log_ids, renames>>

\* grand and, for each staff row in order, the minutes m shown beside its name
render_summary_row(logs_df, staff_df, start, end) ==
    LET sub == logs_in_range(logs_df, start, end)
    IN  [grand     |-> IF sub # <<>> THEN SumMinutes(sub) ELSE 0,
         per_staff |-> [i \in 1..Len(staff_df) |->
             [name |-> staff_df[i].name,
              m    |-> IF sub # <<>>
                       THEN SumMinutes(SelectSeq(sub,
                                LAMBDA r : r.staff = staff_df[i].name))
                       ELSE 0]]]

\* main calls render_summary_row for the view range
Summary(start, end) ==
    /\ view' = [op      |-> "summary",
                start   |-> start,
                end     |-> end,
                summary |-> render_summary_row(get_logs(logs_ws),
                                               get_staff(staff_ws), start, end)]
    /\ UNCHANGED <<staff_ws, students_ws, logs_ws, ren, student_ids, log_ids, renames>>

AggNext ==
    \/ \E w \in Windows : Render(w[1], w[2]) /\ StoreOnly
    \/ \E w \in Windows : Summary(w[1], w[2]) /\ StoreOnly

AggSpec == AggInit /\ [][AggNext]_vars

(***************************************************************************)
(* safe_goal on any student row: each goal column may be absent, and its   *)
(* cell a number or a text.                                                *)
(***************************************************************************)
GoalCells == {NumCell(45), NumCell(90), TextCell}

StudentSeries == UNION {[cols -> GoalCells] : cols \in SUBSET GoalColumns}

GoalSubjects == SubjectSet \cup {"Science"}

SafeGoalCall(student, subject) ==
    /\ view' = [op |-> "safe_goal", student |-> student, subject |-> subject,
                goal |-> safe_goal(student, subject)]
    /\ UNCHANGED <<staff_ws, students_ws, logs_ws, ren, student_ids, log_ids, renames>>

GoalNext == \E student \in StudentSeries, subject \in GoalSubjects :
                SafeGoalCall(student, subject) /\ StoreOnly

GoalSpec == Init /\ [][GoalNext]_vars

(***************************************************************************)
(* Calendar dates (datetime.date): a date is its proleptic Gregorian       *)
(* ordinal, as date.toordinal() gives it; day 1 is Monday 0001-01-01.      *)
(***************************************************************************)
is_leap(year) == year % 4 = 0 /\ (year % 100 # 0 \/ year % 400 = 0)

days_in_month(year, month) ==
    IF month = 2 THEN (IF is_leap(year) THEN 29 ELSE 28)
    ELSE IF month \in {4, 6, 9, 11} THEN 30 ELSE 31

days_before_year(year) ==
    LET y == year - 1
    IN  y * 365 + (y \div 4) - (y \div 100) + (y \div 400)

RECURSIVE days_before_month(_, _)
days_before_month(year, month) ==
    IF month = 1 THEN 0
    ELSE days_before_month(year, month - 1) + days_in_month(year, month - 1)

\* date(year, month, day)
date(year, month, day) ==
    days_before_year(year) + days_before_month(year, month) + day

\* d.weekday(): Monday is 0, Sunday is 6
weekday(d) == (d + 6) % 7

\* d.year
year_of(d) ==
    CHOOSE y \in (d \div 366)..((d \div 365) + 1) :
        date(y, 1, 1) <= d /\ d < date(y + 1, 1, 1)

\* <<d.month, d.day>>
month_day(d) ==
    LET y == year_of(d)
        m == CHOOSE m \in 1..12 :
                 date(y, m, 1) <= d /\ d < date(y, m, 1) + days_in_month(y, m)
    IN  <<m, d - date(y, m, 1) + 1>>

\* the last day of the month: the first of the next month less one day
last_of_month(year, month) ==
    IF month = 12 THEN date(year + 1, 1, 1) - 1
    ELSE date(year, month + 1, 1) - 1

\* f"{mon.month}/{mon.day}-{fri.month}/{fri.day}"
week_label(mon, fri) == <<month_day(mon), month_day(fri)>>

RECURSIVE weeks_from(_, _)
\* while cur <= last: weeks.append((label, mon, mon + 6 days)); cur += 7 days
weeks_from(cur, last) ==
    IF cur <= last
    THEN <<[label |-> week_label(cur, cur + 4), start |-> cur, end |-> cur + 6]>>
             \o weeks_from(cur + 7, last)
    ELSE <<>>

RECURSIVE weeks_before(_, _)
\* a plausible slip: while cur < last
weeks_before(cur, last) ==
    IF cur < last
    THEN <<[label |-> week_label(cur, cur + 4), start |-> cur, end |-> cur + 6]>>
             \o weeks_before(cur + 7, last)
    ELSE <<>>

get_month_weeks_for_open_end(year, month) ==
    LET first == date(year, month, 1)
    IN  weeks_before(first - weekday(first), last_of_month(year, month))

get_month_weeks_for(year, month) ==
    LET first == date(year, month, 1)
    IN  weeks_from(first - weekday(first), last_of_month(year, month))

get_month_range_for(year, month) ==
    <<date(year, month, 1), last_of_month(year, month)>>

(***************************************************************************)
(* Python floats (IEEE 754 binary64, round to nearest, ties to even).  A   *)
(* positive float is [bits, exp]: its 53 significand bits, most            *)
(* significant first, and the exponent of the last bit; its value is the   *)
(* number written by bits, times 2^exp.                                    *)
(***************************************************************************)
Precision == 53

RECURSIVE BitsOf(_)
\* the binary digits of n >= 0, most significant first; none for 0
BitsOf(n) == IF n = 0 THEN <<>> ELSE BitsOf(n \div 2) \o <<n % 2>>

RECURSIVE IntOf(_)
\* the number written by bits
IntOf(bits) ==
    IF bits = <<>> THEN 0
    ELSE 2 * IntOf(SubSeq(bits, 1, Len(bits) - 1)) + bits[Len(bits)]

RECURSIVE Increment(_)
\* bits + 1; one digit longer when every digit is 1
Increment(bits) ==
    IF bits = <<>> THEN <<1>>
    ELSE IF bits[Len(bits)] = 0
         THEN SubSeq(bits, 1, Len(bits) - 1) \o <<1>>
         ELSE Increment(SubSeq(bits, 1, Len(bits) - 1)) \o <<0>>

\* bits (first digit 1, at least Precision digits) times 2^exp, plus a rest
\* below the last digit when sticky, rounded to Precision digits
RoundBits(bits, exp, sticky) ==
    LET L     == Len(bits)
        keep  == SubSeq(bits, 1, Precision)
        guard == IF L > Precision THEN bits[Precision + 1] ELSE 0
        rest  == sticky \/ \E i \in (Precision + 2)..L : bits[i] = 1
        up    == guard = 1 /\ (rest \/ keep[Precision] = 1)
        inc   == Increment(keep)
    IN  IF ~up THEN [bits |-> keep, exp |-> exp + (L - Precision)]
        ELSE IF Len(inc) = Precision
             THEN [bits |-> inc, exp |-> exp + (L - Precision)]
             ELSE [bits |-> SubSeq(inc, 1, Precision),
                   exp  |-> exp + (L - Precision) + 1]

RECURSIVE DivBits(_, _, _, _)
\* the digits of the quotient after those of acc, until Precision + 1 digits
\* stand: r is the remainder so far, frac the digits after the point so far
DivBits(r, g, acc, frac) ==
    IF Len(acc) > Precision
    THEN [bits |-> acc, exp |-> 0 - frac, sticky |-> r # 0]
    ELSE LET b == IF 2 * r >= g THEN 1 ELSE 0
         IN  DivBits(2 * r - b * g, g,
                     IF acc = <<>> /\ b = 0 THEN acc ELSE Append(acc, b),
                     frac + 1)

\* a / b for ints a > 0, b > 0: the float nearest to the quotient
truediv(a, b) ==
    LET d == DivBits(a % b, b, BitsOf(a \div b), 0)
    IN  RoundBits(d.bits, d.exp, d.sticky)

RECURSIVE MulBits(_, _, _)
\* the digits of bits * k + carry
MulBits(bits, k, carry) ==
    IF bits = <<>> THEN BitsOf(carry)
    ELSE LET digit == bits[Len(bits)] * k + carry
             rest  == SubSeq(bits, 1, Len(bits) - 1)
         IN  IF digit % 2 = 0 THEN MulBits(rest, k, digit \div 2) \o <<0>>
                              ELSE MulBits(rest, k, digit \div 2) \o <<1>>

\* x * k for a float x > 0 and an int k > 0
float_mul(x, k) == RoundBits(MulBits(x.bits, k, 0), x.exp, FALSE)

\* int(x) for a float x > 0 below 2^Precision: the digits before the point
float_int(x) ==
    IF x.exp >= 0 THEN IntOf(x.bits)
    ELSE IF Precision + x.exp <= 0 THEN 0
         ELSE IntOf(SubSeq(x.bits, 1, Precision + x.exp))

\* int(total / goal * 100) for goal > 0; rounding and int() are symmetric in
\* the sign of total
percent_of(total, goal) ==
    IF total = 0 THEN 0
    ELSE IF total > 0 THEN float_int(float_mul(truediv(total, goal), 100))
         ELSE 0 - float_int(float_mul(truediv(0 - total, goal), 100))

(***************************************************************************)
(* The progress bar and the student card.                                  *)
(***************************************************************************)
RECURSIVE sum_values(_)
\* sum(by_staff.values())
sum_values(by_staff) ==
    IF DOMAIN by_staff = {} THEN 0
    ELSE LET n == CHOOSE k \in DOMAIN by_staff : TRUE
         IN  by_staff[n]
               + sum_values([k \in DOMAIN by_staff \ {n} |-> by_staff[k]])

\* total, the percentage pct_n and whether it is shown as reached (gc, fw)
progress_bar_html(by_staff, staff_df, goal) ==
    LET total == sum_values(by_staff)
        pct   == IF goal > 0 THEN percent_of(total, goal) ELSE 0
    IN  [total   |-> total,
         pct_n   |-> IF goal > 0 THEN (IF pct < 100 THEN pct ELSE 100) ELSE 0,
         reached |-> total >= goal]

\* a plausible slip: a goal counts as met only when exceeded
render_student_card_strict(student, logs_df, staff_df, active_subj, view_start, view_end) ==
    LET goal     == safe_goal(student.goals, active_subj)
        by_staff == staff_breakdown(logs_df, student.id, active_subj,
                                    view_start, view_end, staff_df)
    IN  [goal      |-> goal,
         by_staff  |-> by_staff,
         total_min |-> sum_values(by_staff),
         goal_met  |-> sum_values(by_staff) > goal,
         badges    |-> [subj \in SubjectSet |->
             [g    |-> safe_goal(student.goals, subj),
              m    |-> student_minutes(logs_df, student.id, subj, view_start, view_end),
              done |-> student_minutes(logs_df, student.id, subj, view_start, view_end)
                           > safe_goal(student.goals, subj)]],
         bar       |-> progress_bar_html(by_staff, staff_df, goal)]

\* what the card shows: goal, breakdown, total, status, the three badges, bar
render_student_card(student, logs_df, staff_df, active_subj, view_start, view_end) ==
    LET goal     == safe_goal(student.goals, active_subj)
        by_staff == staff_breakdown(logs_df, student.id, active_subj,
                                    view_start, view_end, staff_df)
    IN  [goal      |-> goal,
         by_staff  |-> by_staff,
         total_min |-> sum_values(by_staff),
         goal_met  |-> sum_values(by_staff) >= goal,
         badges    |-> [subj \in SubjectSet |->
             [g    |-> safe_goal(student.goals, subj),
              m    |-> student_minutes(logs_df, student.id, subj, view_start, view_end),
              done |-> student_minutes(logs_df, student.id, subj, view_start, view_end)
                           >= safe_goal(student.goals, subj)]],
         bar       |-> progress_bar_html(by_staff, staff_df, goal)]

(***************************************************************************)
(* The dashboard: the goal chart and the student cards on the snapshots    *)
(* of any students and logs sheets.                                        *)
(***************************************************************************)
\* the students of df with student_minutes >= safe_goal in the window
goal_hits(logs_df, students_df, subj, w_start, w_end) ==
    {i \in 1..Len(students_df) :
        student_minutes(logs_df, students_df[i].id, subj, w_start, w_end)
            >= safe_goal(students_df[i].goals, subj)}

\* a plausible slip: the month's range in place of the week's
render_goal_chart_by_month(logs_df, students_df, year, month) ==
    LET weeks == get_month_weeks_for(year, month)
        range == get_month_range_for(year, month)
    IN  [k \in 1..Len(weeks) |->
            [Week  |-> weeks[k].label,
             count |-> [subj \in SubjectSet |->
                 Cardinality(goal_hits(logs_df, students_df, subj,
                                       range[1], range[2]))]]]

\* the rows of the chart's data frame
render_goal_chart(logs_df, students_df, year, month) ==
    LET weeks == get_month_weeks_for(year, month)
    IN  [k \in 1..Len(weeks) |->
            [Week  |-> weeks[k].label,
             count |-> [subj \in SubjectSet |->
                 Cardinality(goal_hits(logs_df, students_df, subj,
                                       weeks[k].start, weeks[k].end))]]]

\* the month tab of the dashboard that is rendered
ChartMonths == {<<2024, 1>>}

\* the Math goal cell of a student row: entered, typed over by hand, or text
RawGoals == {NumCell(30), NumCell(0), TextCell}

\* the students sheet whose row i has id i and the Math goal cell cells[i]
StudentSheetOf(cells) ==
    [i \in 1..Len(cells) |->
        [id    |-> i,
         name  |-> IF i = 1 THEN "Ana" ELSE "Ben",
         grade |-> IF i = 1 THEN "6th" ELSE "7th",
         goals |-> [c \in GoalColumns |->
                       CASE c = "goal_math"    -> cells[i]
                         [] c = "goal_english" -> NumCell(60)
                         [] OTHER              -> NumCell(45)]]]

\* student, subject and date of a session: each differs from the first in
\* one part
DashLogRows ==
    {<<1, "Math", date(2024, 1, 1)>>, <<1, "Math", date(2024, 1, 8)>>,
     <<2, "Math", date(2024, 1, 1)>>, <<1, "English", date(2024, 1, 1)>>}

\* the logs sheet whose row i is the session body[i] of 30 minutes
DashSheetOf(body) ==
    [i \in 1..Len(body) |->
        [id         |-> i,
         student_id |-> body[i][1],
         subject    |-> body[i][2],
         staff      |-> "Ms. Rivera",
         minutes    |-> NumCell(30),
         date       |-> DateCell(body[i][3])]]

DashInit ==
    /\ staff_ws = SubSeq(DEFAULT_STAFF, 1, NumStaff)
    /\ \E n \in 0..MaxStudents : \E cells \in [1..n -> RawGoals] :
          students_ws = StudentSheetOf(cells)
    /\ \E n \in 0..MaxLogs : \E body \in [1..n -> DashLogRows] :
          logs_ws = DashSheetOf(body)
    /\ ren = IdleRen
    /\ student_ids = <<>>
    /\ log_ids = <<>>
    /\ renames = 0
    /\ view = NoView
    /\ session_state = NewSession
    /\ script = IdleScript

\* main calls render_goal_chart(logs_df, students_df, yr, mo) for a month tab
GoalChart(year, month) ==
    /\ view' = [op    |-> "chart",
                year  |-> year,
                month |-> month,
                rows  |-> render_goal_chart(get_logs(logs_ws),
                                            get_students(students_ws),
                                            year, month)]
    /\ UNCHANGED <<staff_ws, students_ws, logs_ws, ren, student_ids, log_ids, renames>>

\* the view range of the January tab when its first week is selected
CardWindows ==
    {<<get_month_weeks_for(2024, 1)[1].start, get_month_weeks_for(2024, 1)[1].end>>}

\* main calls render_student_card for student row i in the tab of subj
Card(i, subj, view_start, view_end) ==
    /\ view' = [op         |-> "card",
                student_id |-> get_students(students_ws)[i].id,
                subj       |-> subj,
                start      |-> view_start,
                end        |-> view_end,
                card       |-> render_student_card(get_students(students_ws)[i],
                                                   get_logs(logs_ws),
                                                   get_staff(staff_ws),
                                                   subj, view_start, view_end)]
    /\ UNCHANGED <<staff_ws, students_ws, logs_ws, ren, student_ids, log_ids, renames>>

DashNext ==
    \/ \E ym \in ChartMonths : GoalChart(ym[1], ym[2]) /\ StoreOnly
    \/ \E i \in 1..Len(students_ws), subj \in SubjectSet, w \in CardWindows :
          Card(i, subj, w[1], w[2]) /\ StoreOnly

DashSpec == DashInit /\ [][DashNext]_vars

(***************************************************************************)
(* progress_bar_html on any breakdown of the roster and any goal.          *)
(***************************************************************************)
\* the minutes of a staff member in a breakdown: sums of sessions of any
\* length, and what a minutes cell typed over by hand may leave
BarMinutes == {-5, 0, 14, 15, 30, 60}

\* the goal of the card: what safe_goal may return
BarGoals == {-5, 0, 30, 50, 60}

ProgressBar(by_staff, goal) ==
    /\ view' = [op       |-> "progress",
                by_staff |-> by_staff,
                goal     |-> goal,
                bar      |-> progress_bar_html(by_staff, get_staff(staff_ws), goal)]
    /\ UNCHANGED <<staff_ws, students_ws, logs_ws, ren, student_ids, log_ids, renames>>

ProgressNext ==
    \E by_staff \in [StaffNames(get_staff(staff_ws)) -> BarMinutes],
       goal \in BarGoals :
        ProgressBar(by_staff, goal) /\ StoreOnly

ProgressSpec == Init /\ [][ProgressNext]_vars

(***************************************************************************)
(* get_month_weeks_for on the months of the school years of the dashboard. *)
(***************************************************************************)
MaxYears == 9    \* calendar years, from 2024 on

Years == 2024..(2023 + MaxYears)

MonthWeeks(year, month) ==
    /\ view' = [op    |-> "weeks",
                year  |-> year,
                month |-> month,
                weeks |-> get_month_weeks_for(year, month)]
    /\ UNCHANGED <<staff_ws, students_ws, logs_ws, ren, student_ids, log_ids, renames>>

WeekNext ==
    \E year \in Years, month \in 1..12 : MonthWeeks(year, month) /\ StoreOnly

WeekSpec == Init /\ [][WeekNext]_vars

(***************************************************************************)
(* The student cards on a logs sheet whose staff cells may hold a name     *)
(* that no staff row holds: the name a rename that stopped part-way has    *)
(* left behind, or one typed into the sheet by hand.                       *)
(***************************************************************************)
\* student, subject and staff of a session of 30 minutes on 2024-01-01: each
\* differs from the first in one part
RosterLogRows ==
    {<<1, "Math", "Ms. Rivera">>, <<1, "Math", "Ms. Lopez">>,
     <<2, "Math", "Ms. Rivera">>, <<1, "English", "Ms. Rivera">>}

RosterSheetOf(body) ==
    [i \in 1..Len(body) |->
        [id         |-> i,
         student_id |-> body[i][1],
         subject    |-> body[i][2],
         staff      |-> body[i][3],
         minutes    |-> NumCell(30),
         date       |-> DateCell(date(2024, 1, 1))]]

CardInit ==
    /\ staff_ws = SubSeq(DEFAULT_STAFF, 1, NumStaff)
    /\ \E n \in 0..MaxStudents : \E cells \in [1..n -> RawGoals] :
          students_ws = StudentSheetOf(cells)
    /\ \E n \in 0..MaxLogs : \E body \in [1..n -> RosterLogRows] :
          logs_ws = RosterSheetOf(body)
    /\ ren = IdleRen
    /\ student_ids = <<>>
    /\ log_ids = <<>>
    /\ renames = 0
    /\ view = NoView
    /\ session_state = NewSession
    /\ script = IdleScript

CardNext ==
    \E i \in 1..Len(students_ws), subj \in SubjectSet, w \in CardWindows :
        Card(i, subj, w[1], w[2]) /\ StoreOnly

CardSpec == CardInit /\ [][CardNext]_vars

(***************************************************************************)
(* The calls on the students sheet, on any id.  script.form holds the call *)
(* of the step: the method and its arguments.                              *)
(***************************************************************************)
Called(form) ==
    /\ script' = [IdleScript EXCEPT !.form = form]
    /\ UNCHANGED session_state

\* the ids a call may be given: those of rows, and those of no row
CallIds == 1..MaxAdds

\* the name input of the edit form: left empty, or a new name
EditNames == {"", "Cy"}

\* the goals argument: None, the goal of the active subject as the edit form
\* passes it, and one with a subject no column belongs to
EditGoals ==
    {<<>>, << <<"English", 20>> >>, << <<"Science", 20>>, <<"Math", 20>> >>}

StudentNext ==
    \/ \E st \in NewStudents :
          /\ add_student(st.name, st.grade, st.goals)
          /\ Called(<<"add_student">>)
    \/ \E sid \in CallIds :
          /\ delete_student(sid)
          /\ Called(<<"delete_student", sid>>)
    \/ \E sid \in CallIds, new_name \in EditNames, goals \in EditGoals, done \in 0..2 :
          /\ update_student(sid, new_name, goals, done)
          /\ Called(<<"update_student", sid, goals>>)
    \/ /\ students_ws # <<>>
       /\ add_log(students_ws[1].id, "Math", get_staff(staff_ws)[1].name, 30, 1)
       /\ Called(<<"add_log">>)

StudentSpec == Init /\ [][StudentNext]_vars

(***************************************************************************)
(* The four aggregation functions as calls on the frames of the session:   *)
(* what a call returns, and the frames it was given as it leaves them.     *)
(***************************************************************************)
\* a plausible slip: the rows outside the window dropped from logs_df in place
logs_in_range_leaves_filtered(logs_df, start, end) ==
    logs_in_range(logs_df, start, end)

\* logs_df after logs_in_range: d is a new series, logs_df[mask] a new frame,
\* and nothing is assigned to logs_df
logs_in_range_leaves(logs_df, start, end) == logs_df

\* the frames after a call of fn: student_minutes and staff_breakdown pass
\* logs_df on to logs_in_range and filter its copy; staff_breakdown reads the
\* names of staff_df into a new dict; safe_goal reads one cell of the row
Leaves(fn, frames, start, end) ==
    IF fn = "safe_goal" THEN frames
    ELSE [frames EXCEPT !.logs_df = logs_in_range_leaves(@, start, end)]

\* what a call of fn returns on the frames; i is the row of students_df whose
\* id, or whose goal, the call is about
Returns(fn, frames, i, subject, start, end) ==
    CASE fn = "logs_in_range" ->
             logs_in_range(frames.logs_df, start, end)
      [] fn = "student_minutes" ->
             student_minutes(frames.logs_df, frames.students_df[i].id, subject,
                             start, end)
      [] fn = "staff_breakdown" ->
             staff_breakdown(frames.logs_df, frames.students_df[i].id, subject,
                             start, end, frames.staff_df)
      [] OTHER ->
             safe_goal(frames.students_df[i].goals, subject)

PureFunctions == {"logs_in_range", "student_minutes", "staff_breakdown", "safe_goal"}

\* the first two weeks of January 2024: the sessions of the sheet lie in the
\* first
PureWindows ==
    {<<get_month_weeks_for(2024, 1)[k].start, get_month_weeks_for(2024, 1)[k].end>> :
        k \in 1..2}

\* the frames main has loaded
Frames(session) ==
    [students_df |-> session.students_df.df,
     logs_df     |-> session.logs_df.df,
     staff_df    |-> session.staff_df.df]

\* a script run loads the three frames and calls fn on them twice, with the
\* same arguments; the session keeps the frames as the calls leave them
PureCall(fn, i, subject, start, end) ==
    /\ script.pc = "idle"
    /\ LET given  == Frames(Loaded)
           once   == Leaves(fn, given, start, end)
           twice  == Leaves(fn, once, start, end)
       IN  /\ view' = [op      |-> "pure",
                       fn      |-> fn,
                       i       |-> i,
                       subject |-> subject,
                       start   |-> start,
                       end     |-> end,
                       given   |-> given,
                       first   |-> Returns(fn, given, i, subject, start, end),
                       second  |-> Returns(fn, once, i, subject, start, end)]
           /\ session_state' =
                 [key \in DOMAIN Loaded |-> [cached |-> TRUE, df |-> twice[key]]]
    /\ UNCHANGED <<staff_ws, students_ws, logs_ws, ren, student_ids, log_ids,
                   renames, script>>

PureNext ==
    \E fn \in PureFunctions, i \in 1..Len(students_ws),
       subject \in LogSubjects, w \in PureWindows :
        PureCall(fn, i, subject, w[1], w[2])

\* the Math goal cell of a student row: a number, or a text
PureGoals == {NumCell(30), TextCell}

\* student, subject and staff of a session of the sheet
PureLogRows ==
    {<<1, "Math", "Ms. Rivera">>, <<1, "Math", "Ms. Lopez">>,
     <<2, "English", "Ms. Rivera">>}

PureInit ==
    /\ staff_ws = SubSeq(DEFAULT_STAFF, 1, NumStaff)
    /\ \E n \in 0..MaxStudents : \E cells \in [1..n -> PureGoals] :
          students_ws = StudentSheetOf(cells)
    /\ \E n \in 0..MaxLogs : \E body \in [1..n -> PureLogRows] :
          logs_ws = RosterSheetOf(body)
    /\ ren = IdleRen
    /\ student_ids = <<>>
    /\ log_ids = <<>>
    /\ renames = 0
    /\ view = NoView
    /\ session_state = NewSession
    /\ script = IdleScript

PureSpec == PureInit /\ [][PureNext]_vars

(***************************************************************************)
(* Properties.                                                             *)
(***************************************************************************)
RECURSIVE SumOver(_, _)
\* the sum of f[x] over the finite set S
SumOver(f, S) ==
    IF S = {} THEN 0
    ELSE LET x == CHOOSE y \in S : TRUE IN f[x] + SumOver(f, S \ {x})

Ids(recs) == {recs[i].id : i \in 1..Len(recs)}

NoRepeat(s) == \A i, j \in 1..Len(s) : i # j => s[i] # s[j]

\* the items of the rename request that change a name
Renamed(r) == {k \in 1..Len(r.order) :
                   r.old_names[r.order[k]] # r.new_names[r.order[k]]}

\* the submitted names are pairwise distinct: each staff member keeps a name
\* of their own, so a rename that carries every session over exists
DistinctRequest(r) ==
    \A k1, k2 \in 1..Len(r.order) :
        k1 # k2 => r.new_names[r.order[k1]] # r.new_names[r.order[k2]]

BreakdownOf(logs_sheet, staff_sheet, sid, subject, w, name) ==
    staff_breakdown(get_logs(logs_sheet), sid, subject, w[1], w[2],
                    get_staff(staff_sheet))[name]

\* C1 (P5, rename propagation): when update_staff_names has returned, for each
\* staff member renamed from A to B, staff_breakdown reports under B, for every
\* student, subject and window, the minutes it reported under A before the
\* call, and no log row is left with staff = A.  Stated for the requests whose
\* names are pairwise distinct (a swap and a chain are among them), and
\* "no row left with A" only where A is not itself a submitted name.
C1_RenamePropagation ==
    (ren.phase = "done" /\ DistinctRequest(ren)) =>
        \A k \in Renamed(ren) :
            LET old == ren.old_names[ren.order[k]]
                new == ren.new_names[ren.order[k]]
            IN  /\ \A sid \in {ren.logs_before[i].student_id :
                                  i \in 1..Len(ren.logs_before)} :
                   \A subject \in SubjectSet, w \in Windows :
                       BreakdownOf(logs_ws, staff_ws, sid, subject, w, new)
                         = BreakdownOf(ren.logs_before, ren.staff_before,
                                       sid, subject, w, old)
                /\ (\A k2 \in 1..Len(ren.order) : ren.new_names[ren.order[k2]] # old)
                       => \A i \in 1..Len(logs_ws) : logs_ws[i].staff # old

\* C2 (identifiers are never reused): in each collection, the id an append
\* assigns differs from every id an earlier append assigned.
C2_IdsNeverReused == NoRepeat(student_ids) /\ NoRepeat(log_ids)

\* C9 (rename atomicity): in no state of the store, which is what a get_logs
\* of any session reads, do the sessions that carried OLD when the rename
\* began carry partly OLD and partly NEW; neither between two writes of
\* update_staff_names nor after a store call of it has failed.  Stated for a
\* request that renames one staff member to a name nobody carried.
C9_RenameAtomic ==
    (ren.phase # "idle" /\ Cardinality(Renamed(ren)) = 1) =>
        \A k \in Renamed(ren) :
            LET old  == ren.old_names[ren.order[k]]
                new  == ren.new_names[ren.order[k]]
                mine == {i \in 1..Len(ren.logs_before) :
                             ren.logs_before[i].staff = old}
            IN  (\A k2 \in 1..Len(ren.order) : ren.old_names[ren.order[k2]] # new)
                  => ~ \E i, j \in mine : /\ logs_ws[i].staff = old
                                          /\ logs_ws[j].staff = new

\* 1 + max(existing ids), or 1 for an empty collection
IdAfter(recs) ==
    IF Ids(recs) = {} THEN 1
    ELSE 1 + CHOOSE m \in Ids(recs) : \A x \in Ids(recs) : x <= m

\* C10 (id assignment): every add_student and add_log appends one row whose id
\* is 1 + the largest id then in the collection (1 if it is empty), and the
\* rows of a collection never share an id.
C10_IdAssignment ==
    [][ /\ student_ids' # student_ids =>
              /\ Len(students_ws') = Len(students_ws) + 1
              /\ students_ws'[Len(students_ws')].id = IdAfter(students_ws)
              /\ student_ids'[Len(student_ids')] = IdAfter(students_ws)
        /\ log_ids' # log_ids =>
              /\ Len(logs_ws') = Len(logs_ws) + 1
              /\ logs_ws'[Len(logs_ws')].id = IdAfter(logs_ws)
        /\ Cardinality(Ids(students_ws')) = Len(students_ws')
        /\ Cardinality(Ids(logs_ws')) = Len(logs_ws') ]_vars

\* an append after a delete: ids 1, 2 handed out, student 1 deleted, then 3
C10_Witness ==
    /\ student_ids = <<1, 2, 3>>
    /\ Ids(students_ws) = {2, 3}
    /\ Len(logs_ws) = 2

(***************************************************************************)
(* Properties of the aggregation functions (AggSpec, GoalSpec).            *)
(***************************************************************************)
Rendered == view.op = "render"

\* the snapshot rows inside the rendered window
InWindow(df) ==
    {i \in 1..Len(df) : /\ df[i].date.ok
                        /\ view.start <= df[i].date.day
                        /\ df[i].date.day <= view.end}

\* the rows of the window that belong to the card c = <<student_id, subject>>
Matching(df, c) ==
    {i \in InWindow(df) : df[i].student_id = c[1] /\ df[i].subject = c[2]}

MinutesAt(df) == [i \in 1..Len(df) |-> df[i].minutes]

Cards == DOMAIN view.total

\* C3 (P2, window inclusivity): logs_in_range keeps exactly the rows with
\* start <= date <= end, each as it is in the input and once: a row dated
\* start or end is kept, one dated start - 1 or end + 1 is dropped.
C3_WindowInclusive ==
    Rendered =>
        LET df   == get_logs(logs_ws)
            kept == view.in_range
        IN  /\ \A i \in 1..Len(kept) : \E j \in InWindow(df) : kept[i] = df[j]
            /\ \A j \in InWindow(df) : \E i \in 1..Len(kept) : kept[i] = df[j]
            /\ Len(kept) = Cardinality(InWindow(df))
            /\ \A j \in 1..Len(df) :
                 /\ (df[j].date.ok /\ df[j].date.day \in {view.start, view.end})
                        => \E i \in 1..Len(kept) : kept[i] = df[j]
                 /\ (df[j].date.ok /\ df[j].date.day \in {view.start - 1, view.end + 1})
                        => \A i \in 1..Len(kept) : kept[i] # df[j]

\* of a two-day window, a row on its last day is kept and one on the day
\* before its first day dropped
C3_Witness ==
    /\ Rendered
    /\ view.start < view.end
    /\ Len(logs_ws) = 2
    /\ logs_ws[1].date = DateCell(view.end)
    /\ logs_ws[2].date = DateCell(view.start - 1)
    /\ Len(view.in_range) = 1

\* C4: student_minutes is the sum of minutes over exactly the rows of the
\* student and the subject inside the window, and 0 when there is none.
C4_StudentMinutes ==
    Rendered =>
        LET df == get_logs(logs_ws)
        IN  \A c \in Cards :
              /\ view.total[c] = SumOver(MinutesAt(df), Matching(df, c))
              /\ Matching(df, c) = {} => view.total[c] = 0

\* of two rows of one student inside the window, only the Math row counts
C4_Witness ==
    /\ Rendered
    /\ Len(logs_ws) = 2
    /\ InWindow(get_logs(logs_ws)) = {1, 2}
    /\ Matching(get_logs(logs_ws), <<1, "Math">>) = {1}
    /\ logs_ws[2].student_id = 1
    /\ view.total[<<1, "Math">>] = 30
    /\ view.total[<<1, "English">>] = 30

\* the matching rows whose staff is no roster name
Unrostered(df, c) ==
    {i \in Matching(df, c) : df[i].staff \notin StaffNames(get_staff(staff_ws))}

BreakdownSum(c) == SumOver(view.by_staff[c], DOMAIN view.by_staff[c])

\* C5 (P3, breakdown sums to total): the breakdown's values sum to
\* student_minutes when every matching row's staff is in the roster;
\* otherwise the sum is <= the total, the difference being the minutes of the
\* matching rows whose staff is not in the roster.
C5_BreakdownSumsToTotal ==
    Rendered =>
        LET df == get_logs(logs_ws)
        IN  \A c \in Cards :
              IF Unrostered(df, c) = {}
              THEN BreakdownSum(c) = view.total[c]
              ELSE /\ BreakdownSum(c) <= view.total[c]
                   /\ view.total[c] - BreakdownSum(c)
                        = SumOver(MinutesAt(df), Unrostered(df, c))

\* C6: the keys of staff_breakdown are exactly the roster's names; each holds
\* the minutes of the matching rows of that name (0 when there is none), and
\* a row of a name outside the roster adds to no bucket.
C6_BreakdownKeys ==
    Rendered =>
        LET df == get_logs(logs_ws)
        IN  \A c \in Cards :
              /\ DOMAIN view.by_staff[c] = StaffNames(get_staff(staff_ws))
              /\ \A n \in StaffNames(get_staff(staff_ws)) :
                     view.by_staff[c][n] =
                         SumOver(MinutesAt(df),
                                 {i \in Matching(df, c) : df[i].staff = n})

\* a matching row of a name outside the roster, beside one of a roster name
C6_Witness ==
    /\ Rendered
    /\ Len(logs_ws) = 2
    /\ Matching(get_logs(logs_ws), <<1, "Math">>) = {1, 2}
    /\ logs_ws[1].staff = "Ms. Lopez"
    /\ logs_ws[2].staff = "Ms. Rivera"
    /\ view.by_staff[<<1, "Math">>]["Ms. Rivera"] = 30
    /\ view.by_staff[<<1, "Math">>]["Mr. Thompson"] = 0
    /\ view.by_staff[<<2, "Math">>]["Ms. Rivera"] = 0

\* C8 (P1, non-negativity): student_minutes is >= 0 for every snapshot
\* get_logs returns, every window, student and subject.
C8_NonNegative ==
    Rendered => \A c \in Cards : view.total[c] >= 0

GoalCalled == view.op = "safe_goal"

\* the goal column of a recognised subject
ColumnOf(subject) ==
    IF subject = "Math" THEN "goal_math"
    ELSE IF subject = "English" THEN "goal_english"
    ELSE "goal_task_completion"

\* the student's cell in column col holds a number
Stored(student, col) == col \in DOMAIN student /\ student[col].num

\* C7 as claimed (goal fallback): safe_goal is 60 when the subject's goal
\* field is missing or holds no number, or the subject is not recognised;
\* otherwise the stored goal.
C7_GoalFallback ==
    GoalCalled =>
        view.goal =
            IF /\ view.subject \in SubjectSet
               /\ Stored(view.student, ColumnOf(view.subject))
            THEN view.student[ColumnOf(view.subject)].val
            ELSE 60

\* C7 as amended: an unrecognised subject is read as Math, so safe_goal then
\* returns the student's Math goal, and 60 only when that is missing or holds
\* no number; for a recognised subject as claimed.
C7_GoalFallbackAmended ==
    GoalCalled =>
        LET col == IF view.subject \in SubjectSet THEN ColumnOf(view.subject)
                                                 ELSE "goal_math"
        IN  view.goal = IF Stored(view.student, col) THEN view.student[col].val
                                                     ELSE 60

\* an unrecognised subject for a student whose Math goal is 45
C7_Witness ==
    /\ GoalCalled
    /\ view.subject = "Science"
    /\ Stored(view.student, "goal_math")
    /\ view.goal = 45

(***************************************************************************)
(* Properties of the dashboard (DashSpec).                                 *)
(***************************************************************************)
Charted == view.op = "chart"

\* the students of the snapshot whose minutes in the window reach their goal
Hitting(subj, w_start, w_end) ==
    LET logs_df     == get_logs(logs_ws)
        students_df == get_students(students_ws)
    IN  {i \in 1..Len(students_df) :
            student_minutes(logs_df, students_df[i].id, subj, w_start, w_end)
                >= safe_goal(students_df[i].goals, subj)}

\* C11 (goal-hit time series): render_goal_chart builds one row per week
\* window of get_month_weeks_for, in chronological order; for each subject the
\* row's count is the number of students s with student_minutes(logs, s.id,
\* subject, week_start, week_end) >= safe_goal(s, subject); each count lies in
\* 0..number of students, and is 0 when there is no student.
C11_GoalHitSeries ==
    Charted =>
        LET weeks == get_month_weeks_for(view.year, view.month)
        IN  /\ Len(view.rows) = Len(weeks)
            /\ \A k \in 1..Len(weeks) :
                 /\ view.rows[k].Week = weeks[k].label
                 /\ k > 1 => weeks[k - 1].start < weeks[k].start
                 /\ \A subj \in SubjectSet :
                      /\ view.rows[k].count[subj] =
                             Cardinality(Hitting(subj, weeks[k].start, weeks[k].end))
                      /\ view.rows[k].count[subj] \in 0..Len(students_ws)
                      /\ students_ws = <<>> => view.rows[k].count[subj] = 0

\* one student with goal 30: 30 minutes in the first week of January 2024 and
\* none in the second give the Math counts 1, 0
C11_Witness ==
    /\ Charted
    /\ view.year = 2024 /\ view.month = 1
    /\ Len(students_ws) = 1
    /\ students_ws[1].goals["goal_math"] = NumCell(30)
    /\ Len(logs_ws) = 1
    /\ logs_ws[1].student_id = 1 /\ logs_ws[1].subject = "Math"
    /\ logs_ws[1].date = DateCell(date(2024, 1, 1))
    /\ Len(view.rows) = 5
    /\ view.rows[1].count["Math"] = 1
    /\ view.rows[2].count["Math"] = 0

Carded == view.op = "card"

\* the row of get_students that the rendered card is of
CardStudent ==
    LET students_df == get_students(students_ws)
    IN  students_df[CHOOSE i \in 1..Len(students_df) :
                        students_df[i].id = view.student_id]

\* C12 (goal met): wherever a goal is evaluated it is met exactly when the
\* total is >= the goal: in the chart's count (student_minutes against
\* safe_goal), in each badge of a card (student_minutes against safe_goal) and
\* in the card's status (the card's total, the sum of its staff_breakdown,
\* against safe_goal of the active subject); so a goal of 0 is met by every
\* total >= 0, 0 included.
C12_GoalMet ==
    /\ Carded =>
         LET c       == view.card
             logs_df == get_logs(logs_ws)
         IN  /\ c.goal = safe_goal(CardStudent.goals, view.subj)
             /\ c.total_min =
                    SumOver(c.by_staff, DOMAIN c.by_staff)
             /\ c.by_staff = staff_breakdown(logs_df, view.student_id, view.subj,
                                             view.start, view.end,
                                             get_staff(staff_ws))
             /\ c.goal_met <=> c.total_min >= c.goal
             /\ (c.goal = 0 /\ c.total_min >= 0) => c.goal_met
             /\ c.bar.reached <=> c.goal_met
             /\ \A subj \in SubjectSet :
                  LET b == c.badges[subj]
                  IN  /\ b.g = safe_goal(CardStudent.goals, subj)
                      /\ b.m = student_minutes(logs_df, view.student_id, subj,
                                               view.start, view.end)
                      /\ b.done <=> b.m >= b.g
                      /\ (b.g = 0 /\ b.m >= 0) => b.done
    /\ Charted =>
         LET weeks       == get_month_weeks_for(view.year, view.month)
             logs_df     == get_logs(logs_ws)
             students_df == get_students(students_ws)
         IN  \A k \in 1..Len(view.rows), subj \in SubjectSet :
                 LET total(i) == student_minutes(logs_df, students_df[i].id, subj,
                                                 weeks[k].start, weeks[k].end)
                     goal(i)  == safe_goal(students_df[i].goals, subj)
                     all      == 1..Len(students_df)
                 IN  /\ view.rows[k].count[subj] + Cardinality({i \in all : total(i) < goal(i)})
                            = Len(students_df)
                     /\ view.rows[k].count[subj]
                            >= Cardinality({i \in all : goal(i) = 0 /\ total(i) >= 0})

\* a card of a student whose Math goal is 0 and who has no session: met; and
\* the English badge of 0 minutes against 60: not met
C12_Witness ==
    /\ Carded
    /\ view.subj = "Math"
    /\ logs_ws = <<>>
    /\ view.card.goal = 0
    /\ view.card.total_min = 0
    /\ view.card.goal_met
    /\ view.card.badges["Math"].done
    /\ ~ view.card.badges["English"].done

\* C13 (effective goal is positive): for every student record get_students
\* returns and every subject, safe_goal(student, subject) >= 1.
C13_GoalPositive ==
    Carded => \A subj \in SubjectSet : view.card.badges[subj].g >= 1

(***************************************************************************)
(* Properties of the team summary and of malformed rows (AggSpec).         *)
(***************************************************************************)
Summarised == view.op = "summary"

RECURSIVE SumFigures(_)
\* the sum of the per-staff figures
SumFigures(per_staff) ==
    IF per_staff = <<>> THEN 0
    ELSE Head(per_staff).m + SumFigures(Tail(per_staff))

\* C14 (team summary): for a window, the grand total is the sum of minutes of
\* all in-window rows, whatever their student and subject; each roster
\* member's figure is the sum of minutes of the in-window rows whose staff is
\* that member's name; both are 0 when no row is in the window; and the
\* figures of a roster of distinct names sum to at most the grand total.
C14_TeamSummary ==
    Summarised =>
        LET df       == get_logs(logs_ws)
            staff_df == get_staff(staff_ws)
            sm       == view.summary
        IN  /\ sm.grand = SumOver(MinutesAt(df), InWindow(df))
            /\ Len(sm.per_staff) = Len(staff_df)
            /\ \A i \in 1..Len(staff_df) :
                 /\ sm.per_staff[i].name = staff_df[i].name
                 /\ sm.per_staff[i].m =
                        SumOver(MinutesAt(df),
                                {j \in InWindow(df) : df[j].staff = staff_df[i].name})
                 /\ InWindow(df) = {} => sm.per_staff[i].m = 0
            /\ InWindow(df) = {} => sm.grand = 0
            /\ Cardinality(StaffNames(staff_df)) = Len(staff_df)
                   => SumFigures(sm.per_staff) <= sm.grand

\* the rows of the sheet that are well formed: a date that parses and a
\* number of minutes
WellFormed(ws) == SelectSeq(ws, LAMBDA r : r.date.ok /\ r.minutes.num)

\* the rows of the sheet whose date parses
Dated(ws) == SelectSeq(ws, LAMBDA r : r.date.ok)

\* C18 (malformed rows are absorbed): a row whose date does not parse is in
\* no window (it adds to no total, breakdown or summary), a row whose minutes
\* are no number adds 0, and every aggregation gives what it gives on the
\* sheet without these rows: the other rows contribute as before.
C18_MalformedAbsorbed ==
    /\ \A i \in 1..Len(logs_ws) :
           ~ logs_ws[i].minutes.num => get_logs(logs_ws)[i].minutes = 0
    /\ Rendered =>
         LET clean    == get_logs(WellFormed(logs_ws))
             staff_df == get_staff(staff_ws)
         IN  /\ \A i \in 1..Len(view.in_range) : view.in_range[i].date.ok
             /\ view.in_range
                  = logs_in_range(get_logs(Dated(logs_ws)), view.start, view.end)
             /\ \A c \in Cards :
                  /\ view.total[c] =
                       student_minutes(clean, c[1], c[2], view.start, view.end)
                  /\ view.by_staff[c] =
                       staff_breakdown(clean, c[1], c[2], view.start, view.end,
                                       staff_df)
    /\ Summarised =>
         view.summary = render_summary_row(get_logs(WellFormed(logs_ws)),
                                           get_staff(staff_ws),
                                           view.start, view.end)

\* a row whose date does not parse beside an in-window row whose minutes are
\* text, both of student 1 in Math: the total is 0 and one row is in range
C18_Witness ==
    /\ Rendered
    /\ Len(logs_ws) = 2
    /\ logs_ws[1].date = BadDateCell /\ logs_ws[1].minutes = NumCell(30)
    /\ logs_ws[2].date = DateCell(view.start) /\ logs_ws[2].minutes = TextCell
    /\ logs_ws[1].student_id = 1 /\ logs_ws[1].subject = "Math"
    /\ logs_ws[2].student_id = 1 /\ logs_ws[2].subject = "Math"
    /\ Len(view.in_range) = 1
    /\ view.total[<<1, "Math">>] = 0

(***************************************************************************)
(* Properties of the store (StoreSpec, Spec).                              *)
(***************************************************************************)
\* the log rows that are of no student row: what a delete_student leaves
Orphans == {i \in 1..Len(logs_ws) : logs_ws[i].student_id \notin Ids(students_ws)}

\* C15 (a delete does not cascade): delete_student leaves every log row in
\* place and unchanged, so the rows of the deleted student still count in the
\* summary; and a row left without a student stays without one through every
\* later step, add_student included: it enters no card and no chart count,
\* which are computed for the ids of the student rows.
C15_DeleteOrphans ==
    [][ /\ Len(students_ws') < Len(students_ws) => logs_ws' = logs_ws
        /\ \A i \in Orphans :
             /\ i <= Len(logs_ws')
             /\ logs_ws'[i] = logs_ws[i]
             /\ logs_ws'[i].student_id \notin Ids(students_ws') ]_vars

(***************************************************************************)
(* Properties of the session (SessionSpec).                                *)
(***************************************************************************)
\* C16 (refresh after write): when no script run is under way, what
\* load_students, load_logs and load_staff return is what the store holds:
\* the next run aggregates from no snapshot that predates a completed
\* mutation, also after a log session that failed part-way.
C16_RefreshAfterWrite ==
    script.pc = "idle" =>
        /\ load_students = get_students(students_ws)
        /\ load_logs = get_logs(logs_ws)
        /\ load_staff = get_staff(staff_ws)

\* a log row but for its staff cell
ButStaff(r) == [r EXCEPT !.staff = ""]

\* C17 (logs are append-only): no step of the store deletes a log row or
\* changes a field of an existing log row, but for the staff field, which
\* only a write of update_staff_names changes; add_log appends one row and
\* leaves the existing rows as they are.
C17_LogsAppendOnly ==
    [][ /\ Len(logs_ws') \in {Len(logs_ws), Len(logs_ws) + 1}
        /\ \A i \in 1..Len(logs_ws) :
             /\ ButStaff(logs_ws'[i]) = ButStaff(logs_ws[i])
             /\ logs_ws'[i].staff # logs_ws[i].staff =>
                    /\ ren.phase = "logs"
                    /\ Len(logs_ws') = Len(logs_ws)
        /\ log_ids' # log_ids =>
             /\ Len(logs_ws') = Len(logs_ws) + 1
             /\ SubSeq(logs_ws', 1, Len(logs_ws)) = logs_ws
        /\ Len(logs_ws') = Len(logs_ws) + 1 => log_ids' # log_ids ]_vars

\* a rename has rewritten the staff cell of the first of two log rows, and a
\* student has been deleted
C17_Witness ==
    /\ ren.phase = "done"
    /\ Len(logs_ws) = 2
    /\ Len(ren.logs_before) = 2
    /\ logs_ws[1].staff # ren.logs_before[1].staff
    /\ ButStaff(logs_ws[1]) = ButStaff(ren.logs_before[1])
    /\ Len(students_ws) < Len(student_ids)

(***************************************************************************)
(* Properties of the progress bar (ProgressSpec) and of the weeks          *)
(* (WeekSpec).                                                             *)
(***************************************************************************)
Barred == view.op = "progress"

\* C19 (progress fraction): the percentage shown for a total and a goal is
\* floor(100 * total / goal), capped at 100, when goal > 0, and 0 when
\* goal <= 0; it lies in 0..100.
C19_ProgressPercent ==
    Barred =>
        LET total == SumOver(view.by_staff, DOMAIN view.by_staff)
            whole == (100 * total) \div view.goal
        IN  /\ view.bar.pct_n =
                  IF view.goal > 0 THEN (IF whole < 100 THEN whole ELSE 100)
                                   ELSE 0
            /\ view.bar.pct_n \in 0..100

Weeked == view.op = "weeks"

\* C20 (week partition): for every year and month the windows of
\* get_month_weeks_for each start on a Monday and end on the Sunday after it,
\* follow one another without gap or overlap in chronological order, together
\* cover every day of the month, and each hold at least one day of the month.
C20_WeekPartition ==
    Weeked =>
        LET weeks == view.weeks
            first == date(view.year, view.month, 1)
            last  == first + days_in_month(view.year, view.month) - 1
        IN  /\ Len(weeks) >= 1
            /\ \A k \in 1..Len(weeks) :
                 /\ weekday(weeks[k].start) = 0
                 /\ weekday(weeks[k].end) = 6
                 /\ weeks[k].end = weeks[k].start + 6
                 /\ k > 1 => weeks[k].start = weeks[k - 1].end + 1
                 /\ \E d \in first..last : weeks[k].start <= d /\ d <= weeks[k].end
            /\ \A d \in first..last :
                 \E k \in 1..Len(weeks) : weeks[k].start <= d /\ d <= weeks[k].end

\* a month that ends on a Monday: its last window holds that one day of it
C20_Witness ==
    /\ Weeked
    /\ weekday(last_of_month(view.year, view.month)) = 0
    /\ view.weeks[Len(view.weeks)].start = last_of_month(view.year, view.month)
    /\ weekday(date(view.year, view.month, 1)) # 0
    /\ view.weeks[1].start < date(view.year, view.month, 1)

(***************************************************************************)
(* Properties of the verdicts of a card (CardSpec).                        *)
(***************************************************************************)
\* C22 (one verdict): the goal-met status of a card for the active subject
\* (from the sum of staff_breakdown) agrees with the badge of that subject on
\* the same card, and with the criterion of the chart's count (both from
\* student_minutes) for the same window, for every logs sheet and roster.
C22_VerdictsAgree ==
    Carded =>
        /\ view.card.goal_met <=> view.card.badges[view.subj].done
        /\ view.card.goal_met <=>
               \E i \in goal_hits(get_logs(logs_ws), get_students(students_ws),
                                  view.subj, view.start, view.end) :
                   get_students(students_ws)[i].id = view.student_id

(***************************************************************************)
(* Properties of the log-session form (SessionSpec).                       *)
(***************************************************************************)
\* the step is the end of the script run of a pressed submit button: the run
\* that showed errors, or the one that leaves the loop over selected_ids
SubmitEnds ==
    /\ view'.op = "log_session"
    /\ script'.pc = "idle"
    /\ \/ script.pc = "logging"
       \/ script.pc = "idle" /\ view' # view

\* C24 (log-session validation): when no grade, no staff member or no student
\* is selected, the run of the submit button appends no log row and leaves the
\* store as it was; otherwise it appends exactly one log row per selected
\* student, in order, each with a new id distinct from all others and with the
\* subject, staff, minutes and date of the form.
C24_LogSessionAllOrNothing ==
    [][ SubmitEnds =>
          LET v      == view'
              before == v.before[3]
              n      == Len(v.selected_ids)
          IN  IF \/ v.grade_sel = NoSelection
                 \/ v.staff_sel = NoSelection
                 \/ n = 0
              THEN <<staff_ws', students_ws', logs_ws'>> = v.before
              ELSE /\ staff_ws' = v.before[1]
                   /\ students_ws' = v.before[2]
                   /\ Len(logs_ws') = Len(before) + n
                   /\ SubSeq(logs_ws', 1, Len(before)) = before
                   /\ \A k \in 1..n :
                        LET row == logs_ws'[Len(before) + k]
                        IN  /\ row.student_id = v.selected_ids[k]
                            /\ row.subject = v.form[1]
                            /\ row.staff = v.form[2]
                            /\ row.minutes = NumCell(v.form[3])
                            /\ row.date = DateCell(v.form[4])
                            /\ \A j \in 1..Len(logs_ws') :
                                 j # Len(before) + k => logs_ws'[j].id # row.id ]_vars

(***************************************************************************)
(* Properties of update_student and delete_student (StudentSpec).          *)
(***************************************************************************)
\* the rows of the students sheet with id sid
RowsOf(sid) == {i \in 1..Len(students_ws) : students_ws[i].id = sid}

\* the goal columns of the subjects of a goals argument
NamedColumns(goals) == {GoalColumnOf(goals[k][1]) : k \in 1..Len(goals)}

\* C25 (student edits): update_student and delete_student on an id of no
\* student row leave the three sheets unchanged; on the id of a row,
\* delete_student removes exactly that row, and update_student changes at most
\* the name and the goal columns of the subjects of its goals argument: the
\* row's id, grade and other goals, and every other row, stay as they are.
C25_StudentEdits ==
    [][ LET call == script'.form
            sid  == call[2]
        IN  (Len(call) > 0 /\ call[1] \in {"delete_student", "update_student"}) =>
              /\ staff_ws' = staff_ws
              /\ logs_ws' = logs_ws
              /\ RowsOf(sid) = {} => students_ws' = students_ws
              /\ (RowsOf(sid) # {} /\ call[1] = "delete_student") =>
                    /\ Cardinality(RowsOf(sid)) = 1
                    /\ \E i \in RowsOf(sid) :
                          students_ws' = SubSeq(students_ws, 1, i - 1)
                              \o SubSeq(students_ws, i + 1, Len(students_ws))
              /\ (RowsOf(sid) # {} /\ call[1] = "update_student") =>
                    /\ Len(students_ws') = Len(students_ws)
                    /\ \A i \in 1..Len(students_ws) :
                          IF i \in RowsOf(sid)
                          THEN /\ students_ws'[i].id = students_ws[i].id
                               /\ students_ws'[i].grade = students_ws[i].grade
                               /\ \A c \in GoalColumns \ NamedColumns(call[3]) :
                                     students_ws'[i].goals[c] = students_ws[i].goals[c]
                          ELSE students_ws'[i] = students_ws[i] ]_vars

\* update_student(2, "Cy", {"Science": 20, "Math": 20}) has run to its end on
\* the second of two rows, with a session logged
C25_Witness ==
    /\ script.form = <<"update_student", 2, << <<"Science", 20>>, <<"Math", 20>> >> >>
    /\ Len(students_ws) = 2
    /\ students_ws[1].name = "Ana"
    /\ students_ws[2] = [id |-> 2, name |-> "Cy", grade |-> "7th",
                         goals |-> [c \in GoalColumns |->
                             CASE c = "goal_math"    -> NumCell(20)
                               [] c = "goal_english" -> NumCell(90)
                               [] OTHER              -> NumCell(45)]]
    /\ Len(logs_ws) >= 1

(***************************************************************************)
(* Properties of a staff rename beyond attribution (Spec).                 *)
(***************************************************************************)
\* an update_staff_names call has begun and no other call has followed it
Renaming == ren.phase \in {"staff", "logs", "done", "failed"}

\* every submitted name is the name the staff row held
SameNames ==
    \A sid \in DOMAIN ren.new_names : ren.new_names[sid] = ren.old_names[sid]

\* C23 (a rename changes attribution only): from the start of an
\* update_staff_names call on, whether it ends or stops part-way, the staff
\* sheet has the same number of rows with the same ids, the logs sheet the same
\* number of rows, each with its id, student_id, subject, minutes and date;
\* every student_minutes value and the grand total of the summary are as
\* before; and when every submitted name equals the current one no log cell
\* is written.
C23_RenameAttributionOnly ==
    Renaming =>
        LET staff_before == ren.staff_before
            logs_before  == ren.logs_before
        IN  /\ Len(staff_ws) = Len(staff_before)
            /\ \A i \in 1..Len(staff_ws) : staff_ws[i].id = staff_before[i].id
            /\ Len(logs_ws) = Len(logs_before)
            /\ \A i \in 1..Len(logs_ws) :
                   ButStaff(logs_ws[i]) = ButStaff(logs_before[i])
            /\ \A sid \in 1..MaxAdds, subject \in SubjectSet, w \in Windows :
                   student_minutes(get_logs(logs_ws), sid, subject, w[1], w[2])
                     = student_minutes(get_logs(logs_before), sid, subject, w[1], w[2])
            /\ \A w \in Windows :
                   render_summary_row(get_logs(logs_ws), get_staff(staff_ws),
                                      w[1], w[2]).grand
                     = render_summary_row(get_logs(logs_before),
                                          get_staff(staff_before), w[1], w[2]).grand
            /\ SameNames => /\ ren.phase # "logs"
                            /\ logs_ws = logs_before

\* a rename of the first staff member has run to its end: her session is now
\* under the new name, the session of the second staff member as it was, and
\* the 60 minutes of student 1 in Math are still 60
C23_Witness ==
    /\ ren.phase = "done"
    /\ Len(logs_ws) = 2
    /\ staff_ws[1].name # ren.staff_before[1].name
    /\ ren.logs_before[1].staff = ren.staff_before[1].name
    /\ logs_ws[1].staff = staff_ws[1].name
    /\ ren.logs_before[2].staff = ren.staff_before[2].name
    /\ logs_ws[2].staff = ren.staff_before[2].name
    /\ logs_ws[1].student_id = logs_ws[2].student_id
    /\ logs_ws[1].subject = "Math" /\ logs_ws[2].subject = "Math"
    /\ student_minutes(get_logs(logs_ws), logs_ws[1].student_id, "Math", 1, 1) = 60

(***************************************************************************)
(* Properties of the aggregation functions as calls (PureSpec).            *)
(***************************************************************************)
PureCalled == view.op = "pure"

====
